---- MODULE Spec2Model ----
(***************************************************************************)
(* Model of backend/fix_exchanges_imports.py: the bulk import commenter    *)
(* (fix_file), the special-case patcher (fix_special_cases) and the run    *)
(* driver (main).                                                          *)
(*                                                                         *)
(* File content is a sequence of text fragments (TLA+ strings).  Every     *)
(* literal the script searches for or writes is cut at the same places,    *)
(* so that "x occurs in content" of the script is "x is a contiguous       *)
(* subsequence of the content" here: a commented import "// import { Foo } *)
(* from '@/modules/exchanges';" is the fragment "// " followed by the      *)
(* fragments of the active import, exactly as in the text.                 *)
(***************************************************************************)
EXTENDS Integers, Sequences, FiniteSets, TLC

VARIABLES fs, bak, files, pc, idx, content, original_content, fixed_count,
          ret, report, wrote, applied, prevApplied, fs0, bak0, calls, runs,
          crashes, target

vars == <<fs, bak, files, pc, idx, content, original_content, fixed_count,
          ret, report, wrote, applied, prevApplied, fs0, bak0, calls, runs,
          crashes, target>>

\* ------------------------------------------------------------------ bounds
MaxLines == 2
MaxCalls == 2
MaxRuns == 2
MaxCrashes == 1

\* ---------------------------------------------------------- text fragments
T_NL == "\n"
T_CMT == "// "
T_IMP == "import { "
T_IMPT == "import type { "
T_CLOSE == " } from '"
T_MOD == "@/modules/exchanges"
T_Q == "';"
T_UP == "../"
T_SVC == "exchanges/services/exchange.service"
T_SCH == "exchanges/schema/exchanges.schema"
T_TYPES == "./types"
T_NOTE == "Module not yet implemented"
T_ES == "ExchangeService"
T_EC == "exchangeConnections"
T_IEA == "IExchangeAdapter"
T_REST == ", SubscriptionRequest, ConnectionStatus, OrderBook, Trade, Ticker, Candle, ExchangeEventName, ExchangeEventListener, ConnectionMetrics"
T_SEP == ", "
T_CCEI == "ConnectionConfig, ExchangeId"
T_GDC == "getDefaultWebSocketConfig"
T_FUNC == "function "
T_SIG == "(exchangeId: ExchangeId): ConnectionConfig {"
T_STUBNOTE == "Temporary stub until exchanges module is implemented"
\* (the two throw statements are template literals in the script; the
\* back quotes are left out of the fragments below)
T_THROWCFG == "  throw new Error(Exchanges module not yet implemented. Cannot get config for ${exchangeId});"
T_RBRACE == "}"
T_IND2 == "  "
T_IND4 == "    "
T_CREATE == "private createAdapter(exchangeId: ExchangeId, config: ConnectionConfig): IExchangeAdapter {"
T_DELEG == "Delegate creation to exchanges module to centralize exchange connectivity"
T_RET == "return createWebSocketAdapter(exchangeId, config);"
T_THROWADP == "throw new Error(Exchanges module not yet implemented. Cannot create adapter for ${exchangeId});"

\* Fragments that contain the character '}' (the class [^}] excludes them).
BraceTokens == {T_CLOSE, T_THROWCFG, T_RBRACE, T_THROWADP}

\* Fragments that start with the two characters '..'.
DotDotTokens == {T_UP}

\* os.path.exists(path) is false: no text is stored under the path.  (A
\* one-fragment sequence that no text contains, so that it compares with texts.)
Absent == <<"<no such file>">>

\* ------------------------------------------------------ sequence utilities
\* sub occurs in c at position i
OccursAt(c, sub, i) ==
    /\ i >= 1
    /\ i + Len(sub) - 1 <= Len(c)
    /\ \A k \in 1..Len(sub) : c[i + k - 1] = sub[k]

\* Python: sub in c
Contains(c, sub) == \E i \in 1..Len(c) : OccursAt(c, sub, i)

\* Python: c.replace(old, new)  (every non-overlapping occurrence, left to right)
RECURSIVE ReplaceFrom(_, _, _, _)
ReplaceFrom(c, old, new, i) ==
    IF i > Len(c) THEN <<>>
    ELSE IF OccursAt(c, old, i) THEN new \o ReplaceFrom(c, old, new, i + Len(old))
    ELSE <<c[i]>> \o ReplaceFrom(c, old, new, i + 1)

Replace(c, old, new) == ReplaceFrom(c, old, new, 1)

Min(S) == CHOOSE x \in S : \A y \in S : x <= y
Max(S) == CHOOSE x \in S : \A y \in S : x >= y

\* ------------------------------------------------------- the rewrite rules
Note == <<T_CMT, T_NOTE, T_NL>>

\* Rules 1 and 2: import { ([^}]+) } from '@/modules/exchanges';  with the
\* opening fragment open ("import { " or "import type { ").  The capture is
\* one or more fragments without '}', so it ends before the first fragment
\* that holds a '}', which must be " } from '".  The result is the index of
\* the last fragment of the match starting at i, or 0 when there is none.
Match12End(c, i, open) ==
    IF c[i] # open THEN 0
    ELSE LET braces == {j \in (i + 1)..Len(c) : c[j] \in BraceTokens}
         IN IF braces = {} THEN 0
            ELSE LET j == Min(braces)
                 IN IF /\ j > i + 1
                       /\ OccursAt(c, <<T_CLOSE, T_MOD, T_Q>>, j)
                    THEN j + 2 ELSE 0

\* a rewrite that leaves the import active under the explanatory comment
Repl12Mutant(open, cap) == Note \o <<open>> \o cap \o <<T_CLOSE, T_MOD, T_Q>>

\* a rewrite that normalises the spacing of the symbol list
Repl12Squeeze(open, cap) ==
    Note \o <<T_CMT, open>> \o [k \in 1..Len(cap) |-> IF cap[k] = ",  " THEN ", " ELSE cap[k]]
         \o <<T_CLOSE, T_MOD, T_Q>>

\* r"// Module not yet implemented\n// import { \1 } from '@/modules/exchanges';"
Repl12(open, cap) == Note \o <<T_CMT, open>> \o cap \o <<T_CLOSE, T_MOD, T_Q>>

\* re.sub for rules 1 and 2: leftmost match, replace, go on after the match.
RECURSIVE Sub12From(_, _, _)
Sub12From(c, i, open) ==
    IF i > Len(c) THEN <<>>
    ELSE LET e == Match12End(c, i, open)
         IN IF e = 0 THEN <<c[i]>> \o Sub12From(c, i + 1, open)
            ELSE Repl12(open, SubSeq(c, i + 1, e - 3)) \o Sub12From(c, e + 1, open)

\* Rules 3 and 4: import { sym } from '\.\..*tail';  The path starts with
\* '..', '.*' is greedy and does not cross a newline, so the match ends at
\* the last "tail';" of the line.
Match34End(c, i, sym, tail) ==
    IF ~ ( /\ OccursAt(c, <<T_IMP, sym, T_CLOSE>>, i)
           /\ i + 3 <= Len(c)
           /\ c[i + 3] \in DotDotTokens ) THEN 0
    ELSE LET nls == {j \in (i + 4)..Len(c) : c[j] = T_NL}
             lineEnd == IF nls = {} THEN Len(c) ELSE Min(nls) - 1
             ends == {k \in (i + 4)..lineEnd : OccursAt(c, <<tail, T_Q>>, k) /\ k + 1 <= lineEnd}
         IN IF ends = {} THEN 0 ELSE Max(ends) + 1

\* r"// Module not yet implemented\n// import { sym } from '../../tail';"
Repl34(sym, tail) == Note \o <<T_CMT, T_IMP, sym, T_CLOSE, T_UP, T_UP, tail, T_Q>>

RECURSIVE Sub34From(_, _, _, _)
Sub34From(c, i, sym, tail) ==
    IF i > Len(c) THEN <<>>
    ELSE LET e == Match34End(c, i, sym, tail)
         IN IF e = 0 THEN <<c[i]>> \o Sub34From(c, i + 1, sym, tail)
            ELSE Repl34(sym, tail) \o Sub34From(c, e + 1, sym, tail)

Pattern1(c) == Sub12From(c, 1, T_IMP)
Pattern2(c) == Sub12From(c, 1, T_IMPT)
Pattern3(c) == Sub34From(c, 1, T_ES, T_SVC)
Pattern4(c) == Sub34From(c, 1, T_EC, T_SCH)

\* The four substitutions of fix_file, in order.
Rewrite(c) == Pattern4(Pattern3(Pattern2(Pattern1(c))))

\* The texts matched by re.sub with rule 1/2 in c, scanning from i.
RECURSIVE Matches12From(_, _, _)
Matches12From(c, i, open) ==
    IF i > Len(c) THEN {}
    ELSE LET e == Match12End(c, i, open)
         IN IF e = 0 THEN Matches12From(c, i + 1, open)
            ELSE {SubSeq(c, i, e)} \cup Matches12From(c, e + 1, open)

RECURSIVE Matches34From(_, _, _, _)
Matches34From(c, i, sym, tail) ==
    IF i > Len(c) THEN {}
    ELSE LET e == Match34End(c, i, sym, tail)
         IN IF e = 0 THEN Matches34From(c, i + 1, sym, tail)
            ELSE {SubSeq(c, i, e)} \cup Matches34From(c, e + 1, sym, tail)

\* Every text some rule of fix_file matches when it is applied to c.
Matched(c) ==
    Matches12From(c, 1, T_IMP)
      \cup Matches12From(Pattern1(c), 1, T_IMPT)
      \cup Matches34From(Pattern2(Pattern1(c)), 1, T_ES, T_SVC)
      \cup Matches34From(Pattern3(Pattern2(Pattern1(c))), 1, T_EC, T_SCH)

\* fix_file as a function of the file system: fsv and bakv map each path to
\* its content or Absent.
FileNotFound == "File not found"
NoChanges == "No changes needed"
FixedAndBackedUp == "Fixed and backed up"

\* a fix_file that writes the backup before it compares the texts
fix_fileAlwaysBackup(fsv, bakv, filepath) ==
    IF fsv[filepath] = Absent
    THEN [fs |-> fsv, bak |-> bakv, ret |-> FALSE, report |-> FileNotFound]
    ELSE LET orig == fsv[filepath]
             new == Rewrite(orig)
         IN [fs |-> [fsv EXCEPT ![filepath] = new],
             bak |-> [bakv EXCEPT ![filepath] = orig],
             ret |-> new # orig,
             report |-> IF new # orig THEN FixedAndBackedUp ELSE NoChanges]

fix_file(fsv, bakv, filepath) ==
    IF fsv[filepath] = Absent
    THEN [fs |-> fsv, bak |-> bakv, ret |-> FALSE, report |-> FileNotFound]
    ELSE LET orig == fsv[filepath]
             new == Rewrite(orig)
         IN IF new # orig
            THEN [fs |-> [fsv EXCEPT ![filepath] = new],
                  bak |-> [bakv EXCEPT ![filepath] = orig],
                  ret |-> TRUE, report |-> FixedAndBackedUp]
            ELSE [fs |-> fsv, bak |-> bakv, ret |-> FALSE, report |-> NoChanges]


\* --------------------------------------------------------------- the paths
MGR == "market-data/websocket/market-data-websocket-manager.ts"
PIPE == "market-data/websocket/pipeline.ts"
GEN == "market-data/services/orderbook.service.ts"

FILES_TO_FIX ==
    << MGR, PIPE,
       "market-data/websocket/websocket-manager.ts",
       GEN,
       "market-data/services/ohlcv.service.ts",
       "market-data/services/trades.service.ts",
       "market-data/services/ticker.service.ts",
       "order-book/services/order-book-snapshot.service.ts",
       "social-trading/services/copy-trading.service.ts",
       "orders/services/position.service.ts",
       "orders/services/order.service.ts" >>

Paths == {FILES_TO_FIX[k] : k \in 1..Len(FILES_TO_FIX)}

\* ------------------------------------------------------- the special cases
\* Fix 1: "import type { IExchangeAdapter" in content and
\*        "ConnectionConfig, ExchangeId" not in content
GuardA(c) == Contains(c, <<T_IMPT, T_IEA>>) /\ ~ Contains(c, <<T_CCEI>>)
OldA == <<T_IMPT, T_IEA, T_REST, T_CLOSE, T_TYPES, T_Q>>
NewA == <<T_IMPT, T_IEA, T_REST, T_SEP, T_CCEI, T_CLOSE, T_TYPES, T_Q>>
PatchA(c) == Replace(c, OldA, NewA)

\* Fix 2: the commented-out import is in content and
\*        "function getDefaultWebSocketConfig" is not
Marker == <<T_CMT, T_IMP, T_GDC, T_CLOSE, T_MOD, T_Q>>
FuncDef == <<T_FUNC, T_GDC>>
Stub == <<T_NL, T_NL, T_CMT, T_STUBNOTE, T_NL, T_FUNC, T_GDC, T_SIG, T_NL,
          T_THROWCFG, T_NL, T_RBRACE>>
\* a guard that does not look for the function definition
GuardBMutant(c) == Contains(c, Marker)

GuardB(c) == Contains(c, Marker) /\ ~ Contains(c, FuncDef)
PatchB(c) == Replace(c, Marker, Marker \o Stub)

\* Fix 3: "return createWebSocketAdapter(exchangeId, config);" in content
GuardC(c) == Contains(c, <<T_RET>>)
OldC == <<T_IND2, T_CREATE, T_NL, T_IND4, T_CMT, T_DELEG, T_NL, T_IND4, T_RET>>
NewC == <<T_IND2, T_CREATE, T_NL, T_IND4, T_CMT, T_DELEG, T_NL,
          T_IND4, T_CMT, T_NOTE, T_NL, T_IND4, T_THROWADP, T_NL,
          T_IND4, T_CMT, T_RET>>
PatchC(c) == Replace(c, OldC, NewC)

\* One fix of fix_special_cases on the file system fsv: whether it wrote
\* (its guard held on a file that exists) and the file system after it.
Fix1Does(fsv) == fsv[MGR] # Absent /\ GuardA(fsv[MGR])
Fix1(fsv) == IF Fix1Does(fsv) THEN [fsv EXCEPT ![MGR] = PatchA(fsv[MGR])] ELSE fsv
Fix2Does(fsv) == fsv[PIPE] # Absent /\ GuardB(fsv[PIPE])
Fix2(fsv) == IF Fix2Does(fsv) THEN [fsv EXCEPT ![PIPE] = PatchB(fsv[PIPE])] ELSE fsv
Fix3Does(fsv) == fsv[MGR] # Absent /\ GuardC(fsv[MGR])
Fix3(fsv) == IF Fix3Does(fsv) THEN [fsv EXCEPT ![MGR] = PatchC(fsv[MGR])] ELSE fsv

\* fix_special_cases: the three fixes in order, each reading the file afresh.
\* wrote lists the files written, applied the fixes that wrote and reported.
fix_special_cases(fsv) ==
    LET f1 == Fix1(fsv)
        f2 == Fix2(f1)
        f3 == Fix3(f2)
    IN [fs |-> f3,
        wrote |-> (IF Fix1Does(fsv) THEN <<MGR>> ELSE <<>>)
                    \o (IF Fix2Does(f1) THEN <<PIPE>> ELSE <<>>)
                    \o (IF Fix3Does(f2) THEN <<MGR>> ELSE <<>>),
        applied |-> (IF Fix1Does(fsv) THEN {"A"} ELSE {})
                    \cup (IF Fix2Does(f1) THEN {"B"} ELSE {})
                    \cup (IF Fix3Does(f2) THEN {"C"} ELSE {})]

\* main without interruption: fix_file over the list, then the special cases.
RECURSIVE FixAll(_, _, _, _)
FixAll(fsv, bakv, list, k) ==
    IF k > Len(list) THEN [fs |-> fsv, bak |-> bakv]
    ELSE LET r == fix_file(fsv, bakv, list[k])
         IN FixAll(r.fs, r.bak, list, k + 1)

main(fsv, bakv, list) ==
    LET r == FixAll(fsv, bakv, list, 1)
    IN [fs |-> fix_special_cases(r.fs).fs, bak |-> r.bak]


\* ------------------------------------------------------------ the inputs
T_PLAIN == "const x = 1;"
T_FOO == "Foo"
T_BAR == "Bar"
T_SEPW == ",  "
T_COMMA == ","
T_STALE == "older backup"

ImportOf(open, syms) == <<open>> \o syms \o <<T_CLOSE, T_MOD, T_Q>>
ServiceImport(ups) == <<T_IMP, T_ES, T_CLOSE>> \o ups \o <<T_SVC, T_Q>>
SchemaImport(ups) == <<T_IMP, T_EC, T_CLOSE>> \o ups \o <<T_SCH, T_Q>>

\* Symbol lists: one symbol, two symbols with wide spacing, two symbols
\* over two lines.
SymLists == { <<T_FOO>>, <<T_FOO, T_SEPW, T_BAR>>, <<T_FOO, T_COMMA, T_NL, T_IND2, T_BAR>> }
UpLists == { <<T_UP>>, <<T_UP, T_UP>>, <<T_UP, T_UP, T_UP>> }

\* Lines of the files fix_file is run on.
FixLines ==
    { <<T_PLAIN, T_NL>>,
      ImportOf(T_IMP, <<T_FOO>>) \o <<T_NL>>,
      ImportOf(T_IMP, <<T_FOO, T_SEPW, T_BAR>>) \o <<T_NL>>,
      ImportOf(T_IMP, <<T_FOO, T_COMMA, T_NL, T_IND2, T_BAR>>) \o <<T_NL>>,
      ImportOf(T_IMPT, <<T_FOO>>) \o <<T_NL>>,
      <<T_CMT>> \o ImportOf(T_IMP, <<T_FOO>>) \o <<T_NL>>,
      <<T_IMP, T_FOO, T_CLOSE, T_TYPES, T_Q, T_NL>>,
      ServiceImport(<<T_UP>>) \o <<T_NL>>,
      ServiceImport(<<T_UP, T_UP>>) \o <<T_NL>>,
      SchemaImport(<<T_UP, T_UP>>) \o <<T_NL>>,
      SchemaImport(<<T_UP, T_UP, T_UP>>) \o <<T_NL>> }

\* Lines of market-data-websocket-manager.ts.
MgrLines ==
    { <<T_PLAIN, T_NL>>,
      OldA \o <<T_NL>>,
      <<T_IMPT, T_IEA, T_CLOSE, T_TYPES, T_Q, T_NL>>,
      NewA \o <<T_NL>>,
      OldC \o <<T_NL>>,
      ImportOf(T_IMPT, <<T_CCEI>>) \o <<T_NL>>,
      ImportOf(T_IMP, <<T_FOO>>) \o <<T_NL>> }

\* Lines of pipeline.ts.
PipeLines ==
    { <<T_PLAIN, T_NL>>,
      Marker \o <<T_NL>>,
      ImportOf(T_IMP, <<T_GDC>>) \o <<T_NL>>,
      <<T_FUNC, T_GDC, T_SIG, T_NL, T_THROWCFG, T_NL, T_RBRACE, T_NL>> }

\* Lines of the other files of the list.
GenLines ==
    { ImportOf(T_IMP, <<T_FOO>>) \o <<T_NL>>,
      ServiceImport(<<T_UP, T_UP>>) \o <<T_NL>> }

\* The texts of at most n lines.
RECURSIVE Texts(_, _)
Texts(lines, n) ==
    IF n = 0 THEN {<<>>}
    ELSE LET shorter == Texts(lines, n - 1)
         IN shorter \cup {l \o t : l \in lines, t \in shorter}

OnlyAt(path, c) == [p \in Paths |-> IF p = path THEN c ELSE Absent]

locals == <<pc, idx, content, original_content, fixed_count>>
ghosts == <<wrote, applied, prevApplied, fs0, bak0>>

\* ----------------------------------------------- fix_file, call by call
InitFix ==
    /\ target \in {PIPE, GEN}
    /\ fs \in {OnlyAt(target, c) : c \in Texts(FixLines, MaxLines) \cup {Absent}}
    /\ bak \in {OnlyAt(target, b) : b \in {Absent, <<T_STALE>>}}
    /\ files = <<target>>
    /\ pc = "call" /\ idx = 1 /\ content = <<>> /\ original_content = <<>>
    /\ fixed_count = 0 /\ ret = FALSE /\ report = ""
    /\ wrote = <<>> /\ applied = {} /\ prevApplied = {}
    /\ fs0 = fs /\ bak0 = bak
    /\ calls = 0 /\ runs = 0 /\ crashes = 0

\* one call of fix_file on the target path, with the outcome r
FixFileCall(r) ==
    /\ fs' = r.fs /\ bak' = r.bak /\ ret' = r.ret /\ report' = r.report
    /\ fs0' = fs /\ bak0' = bak
    /\ calls' = calls + 1
    /\ UNCHANGED <<files, locals, wrote, applied, prevApplied, runs, crashes, target>>

FixFileNotFound ==
    /\ pc = "call" /\ calls < MaxCalls
    /\ fix_file(fs, bak, target).report = FileNotFound
    /\ FixFileCall(fix_file(fs, bak, target))

FixFileNoChanges ==
    /\ pc = "call" /\ calls < MaxCalls
    /\ fix_file(fs, bak, target).report = NoChanges
    /\ FixFileCall(fix_file(fs, bak, target))

FixFileFixed ==
    /\ pc = "call" /\ calls < MaxCalls
    /\ fix_file(fs, bak, target).report = FixedAndBackedUp
    /\ FixFileCall(fix_file(fs, bak, target))

NextFix == FixFileNotFound \/ FixFileNoChanges \/ FixFileFixed

SpecFix == InitFix /\ [][NextFix]_vars

\* --------------------------------------- fix_special_cases, call by call
InitSpecial ==
    /\ target = MGR
    /\ fs \in {[p \in Paths |-> IF p = MGR THEN m ELSE IF p = PIPE THEN q ELSE Absent] :
                 m \in Texts(MgrLines, MaxLines) \cup {Absent},
                 q \in Texts(PipeLines, MaxLines) \cup {Absent}}
    /\ bak = [p \in Paths |-> Absent]
    /\ files = <<>>
    /\ pc = "call" /\ idx = 1 /\ content = <<>> /\ original_content = <<>>
    /\ fixed_count = 0 /\ ret = FALSE /\ report = ""
    /\ wrote = <<>> /\ applied = {} /\ prevApplied = {}
    /\ fs0 = fs /\ bak0 = bak
    /\ calls = 0 /\ runs = 0 /\ crashes = 0

\* one call of fix_special_cases, with the outcome r
SpecialCall(r) ==
    /\ fs' = r.fs /\ wrote' = r.wrote /\ applied' = r.applied
    /\ prevApplied' = applied
    /\ fs0' = fs /\ bak0' = bak
    /\ calls' = calls + 1
    /\ UNCHANGED <<bak, files, locals, ret, report, runs, crashes, target>>

\* some guard holds: the call writes
SpecialCallPatches ==
    /\ pc = "call" /\ calls < MaxCalls
    /\ fix_special_cases(fs).wrote # <<>>
    /\ SpecialCall(fix_special_cases(fs))

\* no guard holds: the call writes nothing
SpecialCallNothing ==
    /\ pc = "call" /\ calls < MaxCalls
    /\ fix_special_cases(fs).wrote = <<>>
    /\ SpecialCall(fix_special_cases(fs))

NextSpecial == SpecialCallPatches \/ SpecialCallNothing

SpecSpecial == InitSpecial /\ [][NextSpecial]_vars


\* ------------------------------------------- main, file operation by file
\* operation, with a crash between two operations and a re-run
MgrFull == OldA \o <<T_NL>> \o ImportOf(T_IMPT, <<T_CCEI>>) \o <<T_NL>> \o OldC \o <<T_NL>>
MgrTexts == Texts(MgrLines, 1) \cup {MgrFull, OldA \o <<T_NL>> \o OldC \o <<T_NL>>, Absent}
PipeTexts == Texts(PipeLines, 1)
               \cup {ImportOf(T_IMP, <<T_GDC>>) \o <<T_NL, T_PLAIN, T_NL>>,
                     Marker \o <<T_NL>> \o Marker \o <<T_NL>>,
                     Marker \o <<T_NL, T_FUNC, T_GDC, T_SIG, T_NL, T_THROWCFG, T_NL, T_RBRACE, T_NL>>,
                     Absent}
GenTexts == Texts(GenLines, 1) \cup {Absent}

StartOf(list) ==
    /\ files = list
    /\ fs \in {[p \in Paths |-> IF p = MGR THEN m ELSE IF p = PIPE THEN q
                                 ELSE IF p = GEN THEN g ELSE Absent] :
                 m \in MgrTexts, q \in PipeTexts, g \in GenTexts}
    /\ bak = [p \in Paths |-> Absent]
    /\ target = MGR
    /\ pc = "fix_file" /\ idx = 1 /\ content = <<>> /\ original_content = <<>>
    /\ fixed_count = 0 /\ ret = FALSE /\ report = ""
    /\ wrote = <<>> /\ applied = {} /\ prevApplied = {}
    /\ fs0 = fs /\ bak0 = bak
    /\ calls = 0 /\ runs = 1 /\ crashes = 0

Init == StartOf(FILES_TO_FIX)

filepath == files[idx]

\* the loop of main goes on to the next path, or to the special cases
NextPath ==
    /\ idx' = idx + 1
    /\ pc' = IF idx + 1 > Len(files) THEN "fix1" ELSE "fix_file"

\* fix_file: the path does not exist
FixFileMissing ==
    /\ pc = "fix_file"
    /\ fs[filepath] = Absent
    /\ report' = FileNotFound /\ ret' = FALSE
    /\ NextPath
    /\ UNCHANGED <<fs, bak, files, content, original_content, fixed_count,
                   ghosts, calls, runs, crashes, target>>

\* fix_file: read, four substitutions, nothing changed
FixFileUnchanged ==
    /\ pc = "fix_file"
    /\ fs[filepath] # Absent
    /\ Rewrite(fs[filepath]) = fs[filepath]
    /\ original_content' = fs[filepath]
    /\ content' = Rewrite(fs[filepath])
    /\ report' = NoChanges /\ ret' = FALSE
    /\ NextPath
    /\ UNCHANGED <<fs, bak, files, fixed_count, ghosts, calls, runs, crashes, target>>

\* fix_file: read, four substitutions, the text changed
FixFileChanged ==
    /\ pc = "fix_file"
    /\ fs[filepath] # Absent
    /\ Rewrite(fs[filepath]) # fs[filepath]
    /\ original_content' = fs[filepath]
    /\ content' = Rewrite(fs[filepath])
    /\ pc' = "write_bak"
    /\ UNCHANGED <<fs, bak, files, idx, fixed_count, ret, report, ghosts,
                   calls, runs, crashes, target>>

\* fix_file: open(filepath + '.bak', 'w').write(original_content)
WriteBackup ==
    /\ pc = "write_bak"
    /\ bak' = [bak EXCEPT ![filepath] = original_content]
    /\ pc' = "write_file"
    /\ UNCHANGED <<fs, files, idx, content, original_content, fixed_count, ret,
                   report, ghosts, calls, runs, crashes, target>>

\* fix_file: open(filepath, 'w').write(content); return True
WriteFixed ==
    /\ pc = "write_file"
    /\ fs' = [fs EXCEPT ![filepath] = content]
    /\ report' = FixedAndBackedUp /\ ret' = TRUE
    /\ fixed_count' = fixed_count + 1
    /\ NextPath
    /\ UNCHANGED <<bak, files, content, original_content, ghosts, calls, runs,
                   crashes, target>>

SpecialStep(at, does, after, path, name, to) ==
    /\ pc = at
    /\ fs' = after
    /\ wrote' = IF does THEN Append(wrote, path) ELSE wrote
    /\ applied' = IF does THEN applied \cup {name} ELSE applied
    /\ pc' = to
    /\ UNCHANGED <<bak, files, idx, content, original_content, fixed_count, ret,
                   report, prevApplied, fs0, bak0, calls, runs, crashes, target>>

SpecialFix1 == SpecialStep("fix1", Fix1Does(fs), Fix1(fs), MGR, "A", "fix2")
SpecialFix2 == SpecialStep("fix2", Fix2Does(fs), Fix2(fs), PIPE, "B", "fix3")
SpecialFix3 == SpecialStep("fix3", Fix3Does(fs), Fix3(fs), MGR, "C", "done")

\* the process dies between two file operations
Crash ==
    /\ pc \notin {"done", "crashed"}
    /\ crashes < MaxCrashes
    /\ crashes' = crashes + 1
    /\ pc' = "crashed"
    /\ content' = <<>> /\ original_content' = <<>>
    /\ UNCHANGED <<fs, bak, files, idx, fixed_count, ret, report, ghosts, calls,
                   runs, target>>

\* the operator runs the program again
Rerun ==
    /\ pc \in {"done", "crashed"}
    /\ runs < MaxRuns
    /\ runs' = runs + 1
    /\ pc' = "fix_file" /\ idx' = 1 /\ fixed_count' = 0
    /\ content' = <<>> /\ original_content' = <<>>
    /\ prevApplied' = applied /\ applied' = {} /\ wrote' = <<>>
    /\ UNCHANGED <<fs, bak, files, ret, report, fs0, bak0, calls, crashes, target>>

NextRun ==
    \/ FixFileMissing \/ FixFileUnchanged \/ FixFileChanged
    \/ WriteBackup \/ WriteFixed
    \/ SpecialFix1 \/ SpecialFix2 \/ SpecialFix3

Next == NextRun \/ Crash \/ Rerun

Spec == Init /\ [][Next]_vars

\* main over a list that names one path twice
Twice(p) == Append(FILES_TO_FIX, p)

InitDup == \E p \in {MGR, PIPE, GEN} : StartOf(Twice(p))

SpecDup == InitDup /\ [][NextRun]_vars


\* ============================================================= the claims
pre == fs0[target]
post == fs[target]
Called == calls > 0 /\ pc = "call"

\* the number of occurrences of sub in c
Count(c, sub) == Cardinality({i \in 1..Len(c) : OccursAt(c, sub, i)})

\* C1: when a rule of fix_file matches an existing file, then after the call
\* the backup holds the text the file had before the call, and every
\* occurrence of a matched import in the rewritten file comes right after
\* the comment prefix "// ".
C1_BackupAndCommented ==
    (Called /\ pre # Absent /\ Matched(pre) # {}) =>
        /\ bak[target] = pre
        /\ post # Absent
        /\ \A m \in Matched(pre) : \A i \in 1..Len(post) :
              OccursAt(post, m, i) => (i > 1 /\ post[i - 1] = T_CMT)

C1_Witness ==
    /\ Called /\ pre # Absent /\ Matched(pre) # {} /\ ret
    /\ bak0[target] = <<T_STALE>>
    /\ \E m \in Matched(pre) : Contains(post, m)

\* C2 (as claimed): a second fix_file on a file the first call rewrote
\* returns False and changes neither the file nor the backup.  (In this
\* specification the backup differs from its initial value exactly when the
\* first call rewrote the file.)
C2_SecondCallChangesNothing ==
    (Called /\ calls = 2 /\ bak0[target] \notin {Absent, <<T_STALE>>}) =>
        /\ ret = FALSE
        /\ fs = fs0
        /\ bak = bak0

\* C5 (as claimed): an import of ExchangeService (exchangeConnections) from
\* a relative path of any depth is replaced by the explanatory comment line
\* and "// " followed by the statement as it was, path included.
C5_PathPreserved ==
    (Called /\ pre # Absent) =>
        \A ups \in UpLists : \A stmt \in {ServiceImport(ups), SchemaImport(ups)} :
            Contains(pre, stmt) => Contains(post, Note \o <<T_CMT>> \o stmt)

\* C8: for every import { S } / import type { S } from '@/modules/exchanges';
\* of the file, the output holds the explanatory comment line followed by
\* "// " and the statement with S as it was; and when the rest of the file
\* holds no import, the rest is unchanged.
HasImport(c) == \E k \in 1..Len(c) : c[k] \in {T_IMP, T_IMPT}

C8_SymbolListPreserved ==
    (Called /\ pre # Absent) =>
        \A open \in {T_IMP, T_IMPT} : \A syms \in SymLists : \A i \in 1..Len(pre) :
            LET stmt == ImportOf(open, syms)
                before == SubSeq(pre, 1, i - 1)
                after == SubSeq(pre, i + Len(stmt), Len(pre))
            IN OccursAt(pre, stmt, i) =>
                 /\ Contains(post, Note \o <<T_CMT>> \o stmt)
                 /\ (~ HasImport(before) /\ ~ HasImport(after)) =>
                        post = before \o Note \o <<T_CMT>> \o stmt \o after

C8_Witness ==
    /\ Called /\ pre # Absent /\ ret
    /\ \E i \in 2..Len(pre) :
          /\ OccursAt(pre, ImportOf(T_IMP, <<T_FOO, T_SEPW, T_BAR>>), i)
          /\ ~ HasImport(SubSeq(pre, 1, i - 1))
    /\ Contains(post, Note \o <<T_CMT>> \o ImportOf(T_IMP, <<T_FOO, T_SEPW, T_BAR>>))

\* C10: fix_file on a path that does not exist reports "not found", returns
\* False and creates neither the file nor the backup; on a file no rule
\* matches it returns False and leaves the file and the backup as they were.
C10_NoWriteWithoutChange ==
    /\ (Called /\ pre = Absent) =>
          /\ report = FileNotFound /\ ret = FALSE
          /\ fs = fs0 /\ bak = bak0
    /\ (Called /\ pre # Absent /\ Matched(pre) = {}) =>
          /\ report = NoChanges /\ ret = FALSE
          /\ fs = fs0 /\ bak = bak0

C10_Witness ==
    /\ Called /\ pre # Absent /\ Len(pre) > 0 /\ Matched(pre) = {}
    /\ HasImport(pre)
    /\ bak[target] = Absent /\ report = NoChanges

\* C4 (as claimed): after a run of fix_special_cases that applied a fix, the
\* guard of that fix is false in the next run, which writes no file and
\* changes no content.
C4_SecondRunNoWrite ==
    (Called /\ calls = 2 /\ prevApplied # {}) =>
        /\ prevApplied \cap applied = {}
        /\ wrote = <<>>
        /\ fs = fs0

\* C7 (as claimed): when the manager file has a type import that starts with
\* IExchangeAdapter and does not hold "ConnectionConfig, ExchangeId", then
\* after fix_special_cases the symbol list of that import ends with
\* ", ConnectionConfig, ExchangeId", the rest of the line as it was; and the
\* fix is reported only in that case.
TypeImport(rest) == <<T_IMPT, T_IEA>> \o rest \o <<T_CLOSE, T_TYPES, T_Q>>
Extended(rest) == <<T_IMPT, T_IEA>> \o rest \o <<T_SEP, T_CCEI, T_CLOSE, T_TYPES, T_Q>>

C7_TypeImportExtended ==
    (Called /\ fs0[MGR] # Absent) =>
        /\ \A rest \in {<<>>, <<T_REST>>} :
              (Contains(fs0[MGR], TypeImport(rest)) /\ ~ Contains(fs0[MGR], <<T_CCEI>>)) =>
                  /\ Contains(fs[MGR], Extended(rest))
                  /\ ~ Contains(fs[MGR], TypeImport(rest))
        /\ ("A" \in applied) =>
              \E rest \in {<<>>, <<T_REST>>} :
                  /\ Contains(fs0[MGR], TypeImport(rest))
                  /\ Count(fs[MGR], Extended(rest)) > Count(fs0[MGR], Extended(rest))

\* C3 (as claimed): when a run is interrupted between two file operations
\* and the program is then run again to completion, every file holds what
\* one uninterrupted run would have produced, and every backup there is
\* holds the text the file had before the first run.
C3_RerunAfterCrash ==
    (pc = "done" /\ runs = 2 /\ crashes = 1) =>
        /\ fs = main(fs0, bak0, files).fs
        /\ \A p \in Paths : bak[p] # Absent => bak[p] = fs0[p]

\* C6 (as claimed): with a path named twice in the list, the files and the
\* backups after main are those of a run with the path named once, and the
\* backup holds the text from before the run.
C6_DuplicateHarmless ==
    (pc = "done") =>
        /\ fs = main(fs0, bak0, FILES_TO_FIX).fs
        /\ bak = main(fs0, bak0, FILES_TO_FIX).bak
        /\ \A p \in Paths : bak[p] # Absent => bak[p] = fs0[p]

\* C9: once pipeline.ts holds "function getDefaultWebSocketConfig", no step
\* of the program adds a definition to it, over any number of runs, and
\* fix_special_cases neither changes nor writes the file, whether or not the
\* commented-out import is there.
Writes(w, p) == Cardinality({k \in 1..Len(w) : w[k] = p})

C9_NoDuplicateStub ==
    [][ (fs[PIPE] # Absent /\ Contains(fs[PIPE], FuncDef)) =>
            /\ fs'[PIPE] # Absent
            /\ Count(fs'[PIPE], FuncDef) <= Count(fs[PIPE], FuncDef)
            /\ (pc \in {"fix1", "fix2", "fix3"}) =>
                  /\ fs'[PIPE] = fs[PIPE]
                  /\ Writes(wrote', PIPE) = Writes(wrote, PIPE) ]_vars

C9_Witness ==
    /\ runs = 2 /\ pc = "fix3"
    /\ "B" \in prevApplied
    /\ Contains(fs[PIPE], Marker)
    /\ Count(fs[PIPE], FuncDef) = 1
    /\ fs[PIPE] # fs0[PIPE]


====
